---- MODULE Spec2Model ----
(***************************************************************************)
(* Pascal VOC -> YOLO label converter (VOC_to_YOLO_convertor.py).          *)
(*                                                                         *)
(* The model covers the conversion task process_xml_file with the helpers  *)
(* it calls (get_image_size, convert_pascal_to_yolo, get_class_id) and the *)
(* batch coordinator main() with its process pool and its sequential path. *)
(***************************************************************************)
EXTENDS Integers, Sequences, FiniteSets, TLC

(***************************************************************************)
(* Bounds of the model.                                                    *)
(***************************************************************************)
\* most files in the source trees enumerated for the batch scenarios
MaxFiles == 2
\* largest NUM_CORES (pool size) explored
MaxWorkers == 2
\* most <object> elements in the annotation of a single-unit scenario
MaxObjs == 3
\* largest image dimension of the direct calls of convert_pascal_to_yolo
MaxDim == 3
\* longest class list of the direct calls of get_class_id
MaxTable == 3
\* most failing annotation files in the trees of the long sequential runs
MaxLong == 12
MaxListed == 3

(***************************************************************************)
(* Encoding of XML text.  The text of a numeric element is an integer >= 0;*)
(* two negative codes stand for the cases in which the code cannot read a  *)
(* number from it.                                                         *)
(***************************************************************************)
\* the element is absent: find() returns None, and None.text raises AttributeError
TextMissing == 0 - 1
\* the element holds non-numeric text: int()/float() raises ValueError
TextBad == 0 - 2

\* obj.find('name') is None
NoNameElem == "<no name element>"

(***************************************************************************)
(* Configuration constants of the script.                                  *)
(***************************************************************************)
PASCAL_FORMAT_LABEL_PATH == <<"in">>
YOLO_FORMAT_LABEL_PATH == <<"out">>

\* the extensions tried for the sibling image, in the order of the for loop
ImageExts == <<".jpg", ".jpeg", ".png", ".bmp">>

(***************************************************************************)
(* Messages of the exceptions the task can end with.                       *)
(***************************************************************************)
MsgSuccess == "Success"
MsgNoImage == "Could not find corresponding image file"
MsgUnreadable == "Could not read image dimensions"
MsgNoneText == "'NoneType' object has no attribute 'text'"
MsgBadInt == "invalid literal for int()"
MsgBadFloat == "could not convert string to float"
MsgZeroDiv == "float division by zero"
MsgParse == "ParseError"
MsgNotInList == "not found in OCR_CHARACTERS_NAME list"
MsgFileExists == "File exists"

(***************************************************************************)
(* Rationals: the floats of the script, kept exact.  <<n, d>> with d > 0   *)
(* in lowest terms.                                                        *)
(***************************************************************************)
RECURSIVE GCD(_, _)
GCD(a, b) == IF b = 0 THEN a ELSE GCD(b, a % b)

Abs(x) == IF x < 0 THEN 0 - x ELSE x

Rat(n, d) ==
    LET g == GCD(Abs(n), d) IN <<n \div g, d \div g>>

(***************************************************************************)
(* get_class_id: list.index, the position of the first occurrence          *)
(* (zero-based), or ValueError.                                            *)
(***************************************************************************)
\* get_class_id returning the position of the last occurrence
get_class_id_last(class_name, table) ==
    IF \E i \in 1..Len(table) : table[i] = class_name
    THEN [raised |-> FALSE, msg |-> "",
          id |-> (CHOOSE i \in 1..Len(table) :
                     /\ table[i] = class_name
                     /\ \A j \in (i + 1)..Len(table) : table[j] # class_name) - 1]
    ELSE [raised |-> TRUE, msg |-> MsgNotInList, id |-> 0 - 1]

get_class_id(class_name, table) ==
    IF \E i \in 1..Len(table) : table[i] = class_name
    THEN [raised |-> FALSE, msg |-> "",
          id |-> (CHOOSE i \in 1..Len(table) :
                     /\ table[i] = class_name
                     /\ \A j \in 1..(i - 1) : table[j] # class_name) - 1]
    ELSE [raised |-> TRUE, msg |-> MsgNotInList, id |-> 0 - 1]

(***************************************************************************)
(* convert_pascal_to_yolo: dw = 1./size[0] and dh = 1./size[1] raise       *)
(* ZeroDivisionError on a zero dimension; no clamping.                     *)
(***************************************************************************)
\* convert_pascal_to_yolo with the centre halved by integer division
convert_pascal_to_yolo_floor(size, box) ==
    IF size[1] = 0 \/ size[2] = 0
    THEN [raised |-> TRUE, msg |-> MsgZeroDiv, box |-> <<>>]
    ELSE [raised |-> FALSE, msg |-> "",
          box |-> << Rat((box[1] + box[3]) \div 2, size[1]),
                     Rat((box[2] + box[4]) \div 2, size[2]),
                     Rat(box[3] - box[1], size[1]),
                     Rat(box[4] - box[2], size[2]) >>]

convert_pascal_to_yolo(size, box) ==
    IF size[1] = 0 \/ size[2] = 0
    THEN [raised |-> TRUE, msg |-> MsgZeroDiv, box |-> <<>>]
    ELSE [raised |-> FALSE, msg |-> "",
          box |-> << Rat(box[1] + box[3], 2 * size[1]),
                     Rat(box[2] + box[4], 2 * size[2]),
                     Rat(box[3] - box[1], size[1]),
                     Rat(box[4] - box[2], size[2]) >>]

(***************************************************************************)
(* An annotation file (one source unit), as the task reads it:             *)
(*   parseable  ET.parse succeeds                                          *)
(*   size       the <size> element: present, and the text of its width and *)
(*              height                                                     *)
(*   sib        for each extension of ImageExts, the sibling image         *)
(*              <basename><ext>: exists, readable by PIL, and its size     *)
(*   filename   the <filename> element: present with text, and the image   *)
(*              file it names                                              *)
(*   objects    the <object> elements in document order                    *)
(***************************************************************************)
Raise(exc, msg) == [kind |-> "raise", exc |-> exc, msg |-> msg, size |-> <<0, 0>>]

ReturnSize(size) == [kind |-> "return", exc |-> "", msg |-> "", size |-> size]

\* with Image.open(image_path) as img: return img.size  (lines 113-117, 124-128)
OpenImage(img) ==
    IF img.readable THEN ReturnSize(img.size)
    ELSE Raise("ValueError", MsgUnreadable)

\* FilenameAttempt falling back to a default size where line 130 raises
FilenameAttemptDefault(u) ==
    IF u.filename.present /\ u.filename.img.exists
    THEN OpenImage(u.filename.img)
    ELSE ReturnSize(<<1, 1>>)

\* lines 119-130: the <filename> element, consulted after the extension loop
FilenameAttempt(u) ==
    IF u.filename.present /\ u.filename.img.exists
    THEN OpenImage(u.filename.img)
    ELSE Raise("ValueError", MsgNoImage)

\* SiblingLoop with the extensions tried in the reverse order
RECURSIVE SiblingLoopLastFirst(_, _)
SiblingLoopLastFirst(u, i) ==
    IF i > Len(ImageExts) THEN FilenameAttempt(u)
    ELSE IF u.sib[Len(ImageExts) + 1 - i].exists
    THEN OpenImage(u.sib[Len(ImageExts) + 1 - i])
    ELSE SiblingLoopLastFirst(u, i + 1)

\* lines 110-117: for ext in ['.jpg', '.jpeg', '.png', '.bmp'], from index i on
RECURSIVE SiblingLoop(_, _)
SiblingLoop(u, i) ==
    IF i > Len(ImageExts) THEN FilenameAttempt(u)
    ELSE IF u.sib[i].exists THEN OpenImage(u.sib[i])
    ELSE SiblingLoop(u, i + 1)

\* lines 99-103: the embedded <size> element
EmbeddedSize(u) ==
    IF u.size.width = TextMissing THEN Raise("AttributeError", MsgNoneText)
    ELSE IF u.size.width = TextBad THEN Raise("ValueError", MsgBadInt)
    ELSE IF u.size.height = TextMissing THEN Raise("AttributeError", MsgNoneText)
    ELSE IF u.size.height = TextBad THEN Raise("ValueError", MsgBadInt)
    ELSE ReturnSize(<<u.size.width, u.size.height>>)

get_image_size(u) ==
    IF ~u.parseable THEN Raise("ParseError", MsgParse)
    ELSE IF u.size.present THEN EmbeddedSize(u)
    ELSE SiblingLoop(u, 1)

(***************************************************************************)
(* One iteration of the loop over root.iter('object') (lines 165-190):     *)
(* "skip" is a continue, "write" the f.write of one line, "raise" an       *)
(* exception that leaves the loop and the with block.                      *)
(***************************************************************************)
ObjSkip == [kind |-> "skip", msg |-> "", line |-> <<>>]

ObjRaise(msg) == [kind |-> "raise", msg |-> msg, line |-> <<>>]

ObjWrite(line) == [kind |-> "write", msg |-> "", line |-> line]

InTable(class_name, table) == \E i \in 1..Len(table) : table[i] = class_name

\* lines 178-181: the four float(bndbox.find(..).text), in order
BoxFieldError(b) ==
    LET f == <<b.xmin, b.ymin, b.xmax, b.ymax>>
        bad == {i \in 1..4 : f[i] < 0}
    IN IF bad = {} THEN ""
       ELSE LET i == CHOOSE k \in bad : \A j \in bad : k <= j
            IN IF f[i] = TextMissing THEN MsgNoneText ELSE MsgBadFloat

\* process_object without the "continue" of line 170-171
process_object_no_skip(obj, width, height, table) ==
    IF obj.name = NoNameElem THEN ObjRaise(MsgNoneText)
    ELSE IF ~obj.bndbox.present THEN ObjSkip
    ELSE IF BoxFieldError(obj.bndbox) # "" THEN ObjRaise(BoxFieldError(obj.bndbox))
    ELSE LET b == obj.bndbox
             yolo_box == convert_pascal_to_yolo(<<width, height>>,
                                                <<b.xmin, b.ymin, b.xmax, b.ymax>>)
             class_id == get_class_id(obj.name, table)
         IN IF yolo_box.raised THEN ObjRaise(yolo_box.msg)
            ELSE IF class_id.raised THEN ObjRaise(class_id.msg)
            ELSE ObjWrite(<<class_id.id>> \o yolo_box.box)

process_object(obj, width, height, table) ==
    IF obj.name = NoNameElem THEN ObjRaise(MsgNoneText)
    ELSE IF ~InTable(obj.name, table) THEN ObjSkip
    ELSE IF ~obj.bndbox.present THEN ObjSkip
    ELSE IF BoxFieldError(obj.bndbox) # "" THEN ObjRaise(BoxFieldError(obj.bndbox))
    ELSE LET b == obj.bndbox
             yolo_box == convert_pascal_to_yolo(<<width, height>>,
                                                <<b.xmin, b.ymin, b.xmax, b.ymax>>)
             class_id == get_class_id(obj.name, table)
         IN IF yolo_box.raised THEN ObjRaise(yolo_box.msg)
            ELSE IF class_id.raised THEN ObjRaise(class_id.msg)
            ELSE ObjWrite(<<class_id.id>> \o yolo_box.box)

(***************************************************************************)
(* Paths.  A directory is a sequence of components; a file name is a       *)
(* sequence of pieces, the first the part up to the first inner dot and    *)
(* each later piece one ".suffix".  A file is [dir, name].                 *)
(***************************************************************************)
\* os.path.splitext: the last suffix is the extension; a name of one piece
\* has none (a leading dot does not start an extension)
splitext(name) ==
    IF Len(name) > 1 THEN <<SubSeq(name, 1, Len(name) - 1), <<name[Len(name)]>> >>
    ELSE <<name, <<>> >>

\* file.endswith('.xml')  (line 234)
endswith_xml(name) == name[Len(name)] = ".xml"

\* os.path.relpath(xml_path, PASCAL_FORMAT_LABEL_PATH)  (line 156)
relpath(path, start) ==
    [dir |-> SubSeq(path.dir, Len(start) + 1, Len(path.dir)), name |-> path.name]

\* lines 156-158: the output file of a unit
yolo_path_of(xml_path, output_dir) ==
    LET relative_path == relpath(xml_path, PASCAL_FORMAT_LABEL_PATH)
    IN [dir |-> output_dir \o relative_path.dir,
        name |-> splitext(relative_path.name)[1] \o <<".txt">>]

(***************************************************************************)
(* State.                                                                  *)
(***************************************************************************)
VARIABLES
    tree,                    \* the source tree in os.walk order: [path, xml]
    OCR_CHARACTERS_NAME,     \* the class list of the configuration
    PARALLEL,                \* configuration flag
    NUM_CORES,               \* configuration: max_workers of the pool
    run,                     \* 1: first invocation of main, 2: second one
    prev,                    \* what the first invocation left behind
    pc,                      \* where main() is
    xml_files,               \* main: the list of collected xml paths
    total_files,             \* main: len(xml_files)
    futures,                 \* one slot per submitted task / per loop iteration
    completion,              \* task indexes in the order their futures finished
    as_started,              \* as_completed(futures) has taken its snapshot
    early,                   \* futures already finished at that snapshot
    yielded,                 \* task indexes whose result the loop body has seen
    workers,                 \* the processes executing process_xml_file
    calls,                   \* calls[i]: times process_xml_file was started on task i
    dirs,                    \* directories that exist under the destination
    files,                   \* output files: path -> sequence of lines
    successful_conversions,
    failed_conversions,
    error_messages,          \* dict in insertion order: sequence of <<path, message>>
    outcomes,                \* results the loop body has processed, in order
    reports,                 \* the summaries printed: sequence of records
    call,                    \* a direct call of a helper: function, arguments, result
    \* VOC_class_lister.py
    folder,                  \* XML_FOLDER_PATH: is it a directory, its files in listdir order
    USE_PARALLEL,            \* configuration flag
    available_cores,         \* multiprocessing.cpu_count()
    lpc,                     \* where list_and_save_voc_classes() is
    file_list,               \* the xml files found, as indexes into the folder
    pool,                    \* pool[w]: the file worker w is processing, 0 if none
    handed,                  \* number of files handed to the workers so far
    results,                 \* the list of class sets, in the order they arrived
    combined,                \* number of class sets added to class_counts
    class_counts,            \* dict in insertion order: sequence of <<name, count>>
    output                   \* what was written to OUTPUT_FILE_PATH

vars ==
    << tree, OCR_CHARACTERS_NAME, PARALLEL, NUM_CORES, run, prev, pc, xml_files,
       total_files, futures, completion, as_started, early, yielded, workers,
       calls, dirs, files, successful_conversions, failed_conversions,
       error_messages, outcomes, reports, call, folder, USE_PARALLEL, available_cores,
       lpc, file_list, pool, handed, results, combined, class_counts, output >>

\* the state of the class lister
lister ==
    << folder, USE_PARALLEL, available_cores, lpc, file_list, pool, handed, results,
       combined, class_counts, output >>

config == << tree, OCR_CHARACTERS_NAME, NUM_CORES >>

(***************************************************************************)
(* Inputs.                                                                 *)
(***************************************************************************)
NoImage == [exists |-> FALSE, readable |-> FALSE, size |-> <<0, 0>>]

Unreadable == [exists |-> TRUE, readable |-> FALSE, size |-> <<0, 0>>]

\* the readable image of source j (1..4: the extensions, 5: the filename field)
Img(j) == [exists |-> TRUE, readable |-> TRUE, size |-> <<10 + j, 7>>]

ImageStates(j) == {NoImage, Unreadable, Img(j)}

NoSize == [present |-> FALSE, width |-> TextMissing, height |-> TextMissing]

SizeElem(w, h) == [present |-> TRUE, width |-> w, height |-> h]

NoSiblings == [j \in 1..Len(ImageExts) |-> NoImage]

NoFilename == [present |-> FALSE, img |-> NoImage]

NoBox ==
    [present |-> FALSE, xmin |-> TextMissing, ymin |-> TextMissing,
     xmax |-> TextMissing, ymax |-> TextMissing]

Box(a, b, c, d) == [present |-> TRUE, xmin |-> a, ymin |-> b, xmax |-> c, ymax |-> d]

Obj(n, b) == [name |-> n, bndbox |-> b]

ObjCat == Obj("cat", Box(10, 10, 30, 30))

\* a box that reaches beyond the right edge of a 100 x 50 image
ObjDog == Obj("dog", Box(0, 5, 120, 50))

\* the objects of the single-unit scenarios
ObjKinds ==
    { ObjCat, ObjDog,
      Obj("bird", Box(10, 10, 30, 30)),                   \* class not in the list
      Obj(NoNameElem, Box(10, 10, 30, 30)),               \* no <name>
      Obj("cat", NoBox),                                  \* no <bndbox>
      Obj("dog", Box(10, 10, TextMissing, 30)),           \* no <xmax>
      Obj("dog", Box(10, TextBad, 30, 30)) }              \* <ymin>abc</ymin>

Xml(p, sz, sb, fn, objs) ==
    [parseable |-> p, size |-> sz, sib |-> sb, filename |-> fn, objects |-> objs]

RECURSIVE SeqsUpTo(_, _)
SeqsUpTo(S, n) ==
    IF n = 0 THEN {<<>>}
    ELSE LET shorter == SeqsUpTo(S, n - 1)
         IN shorter \cup {Append(q, x) : q \in {t \in shorter : Len(t) = n - 1}, x \in S}

\* every combination of the five image files a size can be read from
SiblingChoices ==
    {[j \in 1..Len(ImageExts) |-> IF c[j] = 0 THEN NoImage
                                  ELSE IF c[j] = 1 THEN Unreadable
                                  ELSE Img(j)] :
        c \in [1..Len(ImageExts) -> 0..2]}

FilenameChoices ==
    {NoFilename} \cup {[present |-> TRUE, img |-> i] : i \in ImageStates(5)}

\* units that differ in where a size can come from: without a <size> element
\* every combination of image files, with one every reading of its two fields
SizeUnits ==
    { Xml(TRUE, NoSize, sb, fn, <<ObjCat>>) :
        sb \in SiblingChoices, fn \in FilenameChoices }
    \cup
    { Xml(TRUE, SizeElem(w, h), sb, fn, <<ObjCat>>) :
        w \in {100, 0, TextMissing, TextBad},
        h \in {50, 0, TextMissing, TextBad},
        sb \in {NoSiblings, [j \in 1..Len(ImageExts) |-> Img(j)]},
        fn \in {NoFilename, [present |-> TRUE, img |-> Img(5)]} }

\* units that differ in their objects
ObjUnits ==
    { Xml(TRUE, sz, NoSiblings, NoFilename, objs) :
        sz \in {SizeElem(100, 50)},
        objs \in SeqsUpTo(ObjKinds, MaxObjs) }
    \cup
    { Xml(TRUE, SizeElem(0, 50), NoSiblings, NoFilename, objs) :
        objs \in SeqsUpTo(ObjKinds, 2) }

UnitGood == Xml(TRUE, SizeElem(100, 50), NoSiblings, NoFilename, <<ObjCat>>)

UnitUnresolved == Xml(TRUE, NoSize, NoSiblings, NoFilename, <<ObjCat>>)

UnitBadObj ==
    Xml(TRUE, SizeElem(100, 50), NoSiblings, NoFilename,
        <<ObjDog, Obj(NoNameElem, NoBox)>>)

UnitUnparseable == Xml(FALSE, NoSize, NoSiblings, NoFilename, <<>>)

\* the kinds of annotation file of the batch scenarios
BatchKinds == {"good", "unresolved", "badobj"}

\* the i-th file of the tree: the first two share a directory
PathOf(i, ext) ==
    [dir |-> PASCAL_FORMAT_LABEL_PATH \o (IF i <= 2 THEN <<"a">> ELSE <<"b">>),
     name |-> <<"img" \o ToString(i), ext>>]

FileOfKind(i, kind) ==
    IF kind = "other" THEN [path |-> PathOf(i, ".jpg"), xml |-> UnitUnparseable]
    ELSE [path |-> PathOf(i, ".xml"),
          xml |-> IF kind = "good" THEN UnitGood
                  ELSE IF kind = "unresolved" THEN UnitUnresolved
                  ELSE UnitBadObj]

BatchTrees ==
    { [i \in 1..Len(ks) |-> FileOfKind(i, ks[i])] : ks \in SeqsUpTo(BatchKinds, MaxFiles) }

SingleTrees ==
    { << [path |-> PathOf(1, ".xml"), xml |-> u] >> :
        u \in SizeUnits \cup ObjUnits \cup {UnitUnparseable} }

\* some larger trees: more units than workers, a file that is no annotation
MixedTrees ==
    { [i \in 1..Len(ks) |-> FileOfKind(i, ks[i])] :
        ks \in { <<"other">>,
                 <<"good", "other", "badobj">>,
                 <<"good", "badobj", "unresolved">>,
                 <<"unresolved", "good", "good">> } }

ClassTables == { <<"cat", "dog">> }

(***************************************************************************)
(* Initial state: main() has not been called, nothing exists under the     *)
(* destination.                                                            *)
(***************************************************************************)
IdleWorker ==
    [pos |-> "idle", task |-> 0, width |-> 0, height |-> 0, k |-> 0, lvl |-> 0]

\* no helper is called on its own
NoCall == [fn |-> "", args |-> <<>>, done |-> FALSE, ret |-> [raised |-> FALSE, msg |-> ""]]

\* nothing was written to OUTPUT_FILE_PATH
NotSaved == [saved |-> FALSE, text |-> <<>>]

\* the class lister is not run
ListerIdle ==
    /\ folder = [isdir |-> FALSE, entries |-> <<>>]
    /\ USE_PARALLEL = FALSE
    /\ available_cores = 1
    /\ lpc = "Idle"
    /\ file_list = <<>>
    /\ pool = [w \in 1..MaxWorkers |-> 0]
    /\ handed = 0
    /\ results = <<>>
    /\ combined = 0
    /\ class_counts = <<>>
    /\ output = NotSaved

NoPrev ==
    [done |-> FALSE, files |-> <<>>, outcomes |-> <<>>, succeeded |-> 0,
     failed |-> 0, total |-> 0]

Fresh ==
    /\ pc = "Idle"
    /\ xml_files = <<>>
    /\ total_files = 0
    /\ futures = <<>>
    /\ completion = <<>>
    /\ as_started = FALSE
    /\ early = {}
    /\ yielded = {}
    /\ workers = [w \in 1..MaxWorkers |-> IdleWorker]
    /\ calls = <<>>
    /\ dirs = {}
    /\ files = <<>>
    /\ successful_conversions = 0
    /\ failed_conversions = 0
    /\ error_messages = <<>>
    /\ outcomes = <<>>
    /\ reports = <<>>

Init ==
    /\ \/ tree \in BatchTrees \cup MixedTrees /\ NUM_CORES \in 1..MaxWorkers
       \/ tree \in SingleTrees /\ NUM_CORES = 1      \* one task keeps one worker busy
    /\ OCR_CHARACTERS_NAME \in ClassTables
    /\ PARALLEL = FALSE
    /\ run = 1
    /\ prev = NoPrev
    /\ call = NoCall
    /\ ListerIdle
    /\ Fresh

(***************************************************************************)
(* Helpers of the actions.                                                 *)
(***************************************************************************)
\* the content of the annotation file at a path (ET.parse(xml_path))
ReadXml(path) == (CHOOSE f \in {tree[i] : i \in 1..Len(tree)} : f.path = path).xml

RECURSIVE SelectXml(_)
SelectXml(t) ==
    IF t = <<>> THEN <<>>
    ELSE IF endswith_xml(t[1].path.name) THEN <<t[1].path>> \o SelectXml(Tail(t))
    ELSE SelectXml(Tail(t))

\* line 245: tasks = [(xml_file, yolo_path) for xml_file in xml_files]
TaskOf(i) == <<xml_files[i], YOLO_FORMAT_LABEL_PATH>>

NoPath == [dir |-> <<>>, name |-> <<>>]

PendingFuture == [state |-> "pending", exc |-> FALSE, result |-> <<FALSE, NoPath, "">>]

RunningFuture == [state |-> "running", exc |-> FALSE, result |-> <<FALSE, NoPath, "">>]

Finished(result) == [state |-> "finished", exc |-> FALSE, result |-> result]

\* the future of a task lost with a dead worker: result() raises BrokenProcessPool
Broken == [state |-> "finished", exc |-> TRUE, result |-> <<FALSE, NoPath, "">>]

\* error_messages[file_path] = message
DictSet(d, key, val) ==
    IF \E i \in 1..Len(d) : d[i][1] = key
    THEN [i \in 1..Len(d) |-> IF d[i][1] = key THEN <<key, val>> ELSE d[i]]
    ELSE Append(d, <<key, val>>)

\* process_xml_file returns `result` (lines 153, 192, 195): the value reaches the
\* future of the task, or the loop of the sequential path
Return(w, result) ==
    /\ futures' = [futures EXCEPT ![workers[w].task] = Finished(result)]
    /\ completion' = Append(completion, workers[w].task)
    /\ workers' = [workers EXCEPT ![w] = IdleWorker]

\* the same for a call on task i that returns before its first write
ReturnAtOnce(w, i, result) ==
    /\ futures' = [j \in 1..(IF i > Len(futures) THEN i ELSE Len(futures)) |->
                     IF j = i THEN Finished(result) ELSE futures[j]]
    /\ completion' = Append(completion, i)
    /\ workers' = workers

(***************************************************************************)
(* main(): start and enumeration.                                          *)
(***************************************************************************)
\* lines 219-228
Start ==
    /\ pc = "Idle"
    /\ pc' = "Enumerating"
    /\ UNCHANGED << config, call, lister, PARALLEL, run, prev, xml_files, total_files, futures,
                    completion, as_started, early, yielded, workers, calls, dirs,
                    files, successful_conversions, failed_conversions,
                    error_messages, outcomes, reports >>

\* lines 230-251: the walk, the early return on an empty list, the counters
Enumerate ==
    /\ pc = "Enumerating"
    /\ xml_files' = SelectXml(tree)
    /\ total_files' = Len(xml_files')
    /\ calls' = [i \in 1..total_files' |-> 0]
    /\ pc' = IF total_files' = 0 THEN "Done" ELSE "Running"
    /\ UNCHANGED << config, call, lister, PARALLEL, run, prev, futures, completion, as_started,
                    early, yielded, workers, dirs, files, successful_conversions,
                    failed_conversions, error_messages, outcomes, reports >>

(***************************************************************************)
(* The pool (lines 253-256) and the sequential loop (lines 291-292).       *)
(***************************************************************************)
\* line 256: futures = [executor.submit(process_xml_file, task) for task in tasks]
SubmitAll ==
    /\ pc = "Running"
    /\ PARALLEL
    /\ futures = <<>>
    /\ futures' = [i \in 1..total_files |-> PendingFuture]
    /\ UNCHANGED << config, call, lister, PARALLEL, run, prev, pc, xml_files, total_files,
                    completion, as_started, early, yielded, workers, calls, dirs,
                    files, successful_conversions, failed_conversions,
                    error_messages, outcomes, reports >>

(***************************************************************************)
(* process_xml_file, step by step.  A step ends with one access to the     *)
(* destination; the steps of different workers interleave.                 *)
(***************************************************************************)
XmlPathOf(w) == TaskOf(workers[w].task)[1]

YoloPathOf(w) == yolo_path_of(XmlPathOf(w), TaskOf(workers[w].task)[2])

\* lines 143-158: worker w is handed task i; parse, get_image_size, the output
\* path.  All of it reads the source tree only.
Begin(w, i) ==
    LET xml_path == TaskOf(i)[1]
        u == ReadXml(xml_path)
        sz == get_image_size(u)
        n == Len(yolo_path_of(xml_path, TaskOf(i)[2]).dir)
    IN IF ~u.parseable
       THEN ReturnAtOnce(w, i, <<FALSE, xml_path, MsgParse>>)              \* line 195
       ELSE IF sz.kind = "raise"
       THEN ReturnAtOnce(w, i, <<FALSE, xml_path, sz.msg>>)                \* lines 153, 195
       ELSE /\ workers' = [workers EXCEPT ![w] =
                             [pos |-> IF n > 1 THEN "mk_check" ELSE "mk_dir",
                              task |-> i, width |-> sz.size[1], height |-> sz.size[2],
                              k |-> 1, lvl |-> n]]
            /\ futures' = [j \in 1..(IF i > Len(futures) THEN i ELSE Len(futures)) |->
                             IF j = i THEN RunningFuture ELSE futures[j]]
            /\ UNCHANGED completion

\* TakeTask in a pool whose processes end after one task each
TakeTaskOnce(w) ==
    /\ pc = "Running"
    /\ PARALLEL
    /\ w <= NUM_CORES
    /\ workers[w].pos = "idle"
    /\ \A v \in 1..(w - 1) : workers[v].pos # "idle"
    /\ Cardinality({j \in DOMAIN calls : calls[j] > 0}) < NUM_CORES
    /\ \E i \in 1..Len(futures) :
          /\ futures[i].state = "pending"
          /\ \A j \in 1..(i - 1) : futures[j].state # "pending"
          /\ calls' = [calls EXCEPT ![i] = @ + 1]
          /\ Begin(w, i)
    /\ UNCHANGED << config, call, lister, PARALLEL, run, prev, pc, xml_files, total_files,
                    as_started, early, yielded, dirs, files,
                    successful_conversions, failed_conversions, error_messages,
                    outcomes, reports >>

\* a worker process of the pool takes the oldest queued work item and starts
\* process_xml_file on it.  The processes are interchangeable: the idle one with
\* the lowest number stands for any of them.
TakeTask(w) ==
    /\ pc = "Running"
    /\ PARALLEL
    /\ w <= NUM_CORES
    /\ workers[w].pos = "idle"
    /\ \A v \in 1..(w - 1) : workers[v].pos # "idle"
    /\ \E i \in 1..Len(futures) :
          /\ futures[i].state = "pending"
          /\ \A j \in 1..(i - 1) : futures[j].state # "pending"
          /\ calls' = [calls EXCEPT ![i] = @ + 1]
          /\ Begin(w, i)
    /\ UNCHANGED << config, call, lister, PARALLEL, run, prev, pc, xml_files, total_files,
                    as_started, early, yielded, dirs, files,
                    successful_conversions, failed_conversions, error_messages,
                    outcomes, reports >>

\* lines 291-292: for task in tasks: result = process_xml_file(task), in process
SeqCall ==
    /\ pc = "Running"
    /\ ~PARALLEL
    /\ workers[1].pos = "idle"
    /\ Len(futures) < total_files
    /\ yielded = 1..Len(futures)
    /\ calls' = [calls EXCEPT ![Len(futures) + 1] = @ + 1]
    /\ Begin(1, Len(futures) + 1)
    /\ UNCHANGED << config, call, lister, PARALLEL, run, prev, pc, xml_files, total_files,
                    as_started, early, yielded, dirs, files,
                    successful_conversions, failed_conversions, error_messages,
                    outcomes, reports >>

\* line 161, os.makedirs(dirname, exist_ok=True): at level lvl, "not path.exists(head)"
\* decides between recursing into the parent and creating the directory
MkCheck(w) ==
    /\ workers[w].pos = "mk_check"
    /\ LET j == workers[w].lvl
           head == SubSeq(YoloPathOf(w).dir, 1, j - 1)
       IN workers' = [workers EXCEPT
                        ![w].pos = IF head \in dirs \/ j = 2 THEN "mk_dir" ELSE "mk_check",
                        ![w].lvl = IF head \in dirs THEN j ELSE j - 1]
    /\ UNCHANGED << config, call, lister, PARALLEL, run, prev, pc, xml_files, total_files, futures,
                    completion, as_started, early, yielded, calls, dirs, files,
                    successful_conversions, failed_conversions, error_messages,
                    outcomes, reports >>

\* os.makedirs called without the keyword
exist_ok_default == FALSE

\* the keyword of line 161
exist_ok == TRUE

\* line 161, os.makedirs: mkdir(name) at level lvl.  An existing directory raises
\* FileExistsError, which the recursion swallows below the last level and
\* exist_ok=True swallows at the last level.
MkDir(w) ==
    /\ workers[w].pos = "mk_dir"
    /\ LET j == workers[w].lvl
           path == YoloPathOf(w).dir
           name == SubSeq(path, 1, j)
       IN IF name \in dirs /\ j = Len(path) /\ ~exist_ok
          THEN /\ Return(w, <<FALSE, XmlPathOf(w), MsgFileExists>>)     \* line 195
               /\ UNCHANGED dirs
          ELSE /\ dirs' = dirs \cup {name}
               /\ workers' = [workers EXCEPT
                                ![w].pos = IF j = Len(path) THEN "open" ELSE "mk_dir",
                                ![w].lvl = IF j = Len(path) THEN j ELSE j + 1]
               /\ UNCHANGED << futures, completion >>
    /\ UNCHANGED << config, call, lister, PARALLEL, run, prev, pc, xml_files, total_files,
                    as_started, early, yielded, calls, files,
                    successful_conversions, failed_conversions, error_messages,
                    outcomes, reports >>

\* the loop over the objects goes on at object k, or is over: the file is
\* closed and (True, xml_path, "Success") returned (line 192)
Continue(w, k) ==
    IF k > Len(ReadXml(XmlPathOf(w)).objects)
    THEN Return(w, <<TRUE, XmlPathOf(w), MsgSuccess>>)
    ELSE /\ workers' = [workers EXCEPT ![w].pos = "loop", ![w].k = k]
         /\ UNCHANGED << futures, completion >>

\* Open with mode 'a': the content the file had is kept
OpenAppend(w) ==
    /\ workers[w].pos = "open"
    /\ files' = IF YoloPathOf(w) \in DOMAIN files THEN files
                ELSE (YoloPathOf(w) :> <<>>) @@ files
    /\ Continue(w, 1)
    /\ UNCHANGED << config, call, lister, PARALLEL, run, prev, pc, xml_files, total_files,
                    as_started, early, yielded, calls, dirs,
                    successful_conversions, failed_conversions, error_messages,
                    outcomes, reports >>

\* line 164: open(yolo_path, 'w') creates the file or truncates it
Open(w) ==
    /\ workers[w].pos = "open"
    /\ files' = (YoloPathOf(w) :> <<>>) @@ files
    /\ Continue(w, 1)
    /\ UNCHANGED << config, call, lister, PARALLEL, run, prev, pc, xml_files, total_files,
                    as_started, early, yielded, calls, dirs,
                    successful_conversions, failed_conversions, error_messages,
                    outcomes, reports >>

\* lines 165-190: one iteration of the loop over the objects
LoopStep(w) ==
    /\ workers[w].pos = "loop"
    /\ LET obj == ReadXml(XmlPathOf(w)).objects[workers[w].k]
           r == process_object(obj, workers[w].width, workers[w].height,
                               OCR_CHARACTERS_NAME)
       IN IF r.kind = "raise"
          THEN /\ Return(w, <<FALSE, XmlPathOf(w), r.msg>>)             \* line 195
               /\ UNCHANGED files
          ELSE /\ files' = IF r.kind = "write"
                           THEN [files EXCEPT ![YoloPathOf(w)] = Append(@, r.line)]
                           ELSE files
               /\ Continue(w, workers[w].k + 1)
    /\ UNCHANGED << config, call, lister, PARALLEL, run, prev, pc, xml_files, total_files,
                    as_started, early, yielded, calls, dirs,
                    successful_conversions, failed_conversions, error_messages,
                    outcomes, reports >>

\* a worker process of the pool dies while it holds a task (killed by the system,
\* out of memory): the executor marks every unfinished future BrokenProcessPool
\* and terminates the other workers
Crash(w) ==
    /\ PARALLEL
    /\ workers[w].pos # "idle"
    /\ futures' = [i \in 1..Len(futures) |->
                     IF futures[i].state = "finished" THEN futures[i] ELSE Broken]
    /\ completion' = completion \o
          SelectSeq([i \in 1..Len(futures) |-> i], LAMBDA i : futures[i].state # "finished")
    /\ workers' = [v \in 1..MaxWorkers |-> IdleWorker]
    /\ UNCHANGED << config, call, lister, PARALLEL, run, prev, pc, xml_files, total_files,
                    as_started, early, yielded, calls, dirs, files,
                    successful_conversions, failed_conversions, error_messages,
                    outcomes, reports >>

(***************************************************************************)
(* main(): collecting the results and the summary.                         *)
(***************************************************************************)
\* Account without "failed_conversions += 1"
AccountForgetsFailure(result) ==
    /\ successful_conversions' =
          IF result[1] THEN successful_conversions + 1 ELSE successful_conversions
    /\ failed_conversions' = failed_conversions
    /\ error_messages' =
          IF result[1] THEN error_messages
          ELSE DictSet(error_messages, result[2], result[3])
    /\ outcomes' = Append(outcomes, result)

\* Account with the dict keyed by the message
AccountKeyedByMessage(result) ==
    /\ successful_conversions' =
          IF result[1] THEN successful_conversions + 1 ELSE successful_conversions
    /\ failed_conversions' =
          IF result[1] THEN failed_conversions ELSE failed_conversions + 1
    /\ error_messages' =
          IF result[1] THEN error_messages
          ELSE IF \E n \in 1..Len(error_messages) : error_messages[n][2] = result[3]
          THEN [n \in 1..Len(error_messages) |->
                  IF error_messages[n][2] = result[3]
                  THEN <<result[2], result[3]>> ELSE error_messages[n]]
          ELSE Append(error_messages, <<result[2], result[3]>>)
    /\ outcomes' = Append(outcomes, result)

\* lines 264-270 and 293-299: the body of both loops
Account(result) ==
    /\ successful_conversions' =
          IF result[1] THEN successful_conversions + 1 ELSE successful_conversions
    /\ failed_conversions' =
          IF result[1] THEN failed_conversions ELSE failed_conversions + 1
    /\ error_messages' =
          IF result[1] THEN error_messages
          ELSE DictSet(error_messages, result[2], result[3])
    /\ outcomes' = Append(outcomes, result)

\* line 262: as_completed(futures) starts; the futures that are already finished
\* are set aside and yielded first
AsCompletedStart ==
    /\ pc = "Running"
    /\ PARALLEL
    /\ futures # <<>>
    /\ ~as_started
    /\ as_started' = TRUE
    /\ early' = {i \in 1..Len(futures) : futures[i].state = "finished"}
    /\ UNCHANGED << config, call, lister, PARALLEL, run, prev, pc, xml_files, total_files, futures,
                    completion, yielded, workers, calls, dirs, files,
                    successful_conversions, failed_conversions, error_messages,
                    outcomes, reports >>

\* the next future as_completed may yield: any of the early ones, then the others
\* in the order they finished
NextYield(i) ==
    /\ i \in 1..Len(futures)
    /\ i \notin yielded
    /\ futures[i].state = "finished"
    /\ \/ i \in early
       \/ /\ early \subseteq yielded
          /\ \E n \in 1..Len(completion) :
                /\ completion[n] = i
                /\ \A m \in 1..(n - 1) : completion[m] \in yielded

\* Collect leaving main on the first failure outcome
CollectGivesUp(i) ==
    /\ pc = "Running"
    /\ PARALLEL
    /\ as_started
    /\ NextYield(i)
    /\ yielded' = yielded \cup {i}
    /\ IF futures[i].exc
       THEN UNCHANGED << successful_conversions, failed_conversions,
                         error_messages, outcomes >>
       ELSE Account(futures[i].result)
    /\ pc' = IF futures[i].exc \/ ~futures[i].result[1] THEN "Aborted" ELSE pc
    /\ UNCHANGED << config, call, lister, PARALLEL, run, prev, xml_files, total_files, futures,
                    completion, as_started, early, workers, calls, dirs, files,
                    reports >>

\* Collect counting every result as a success
CollectCountsSuccess(i) ==
    /\ pc = "Running"
    /\ PARALLEL
    /\ as_started
    /\ NextYield(i)
    /\ yielded' = yielded \cup {i}
    /\ IF futures[i].exc
       THEN /\ pc' = "Aborted"
            /\ UNCHANGED << successful_conversions, failed_conversions,
                            error_messages, outcomes >>
       ELSE /\ successful_conversions' = successful_conversions + 1
            /\ outcomes' = Append(outcomes, futures[i].result)
            /\ UNCHANGED << failed_conversions, error_messages >>
            /\ pc' = pc
    /\ UNCHANGED << config, call, lister, PARALLEL, run, prev, xml_files, total_files, futures,
                    completion, as_started, early, workers, calls, dirs, files,
                    reports >>

\* lines 262-270: one iteration of "for future in as_completed(futures)";
\* future.result() raises what the future holds
Collect(i) ==
    /\ pc = "Running"
    /\ PARALLEL
    /\ as_started
    /\ NextYield(i)
    /\ yielded' = yielded \cup {i}
    /\ IF futures[i].exc
       THEN /\ pc' = "Aborted"
            /\ UNCHANGED << successful_conversions, failed_conversions,
                            error_messages, outcomes >>
       ELSE /\ Account(futures[i].result)
            /\ pc' = pc
    /\ UNCHANGED << config, call, lister, PARALLEL, run, prev, xml_files, total_files, futures,
                    completion, as_started, early, workers, calls, dirs, files,
                    reports >>

\* lines 293-299: the sequential loop handles the result of the call
SeqCollect ==
    /\ pc = "Running"
    /\ ~PARALLEL
    /\ futures # <<>>
    /\ Len(futures) \notin yielded
    /\ futures[Len(futures)].state = "finished"
    /\ yielded' = yielded \cup {Len(futures)}
    /\ Account(futures[Len(futures)].result)
    /\ UNCHANGED << config, call, lister, PARALLEL, run, prev, pc, xml_files, total_files, futures,
                    completion, as_started, early, workers, calls, dirs, files,
                    reports >>

\* the loop is exhausted: the with blocks are left (lines 255-313)
Finalize ==
    /\ pc = "Running"
    /\ Len(futures) = total_files
    /\ yielded = 1..total_files
    /\ pc' = "Finalizing"
    /\ UNCHANGED << config, call, lister, PARALLEL, run, prev, xml_files, total_files, futures,
                    completion, as_started, early, yielded, workers, calls, dirs,
                    files, successful_conversions, failed_conversions,
                    error_messages, outcomes, reports >>

\* line 326: list(error_messages.items())[:10]
ErrorsShown == 10

\* Summary with the remainder taken from the number of files
SummaryMoreOfTotal ==
    [total |-> total_files,
     succeeded |-> successful_conversions,
     failed |-> failed_conversions,
     shown |-> IF failed_conversions > 0
               THEN SubSeq(error_messages, 1,
                           IF Len(error_messages) < ErrorsShown
                           THEN Len(error_messages) ELSE ErrorsShown)
               ELSE <<>>,
     more |-> IF failed_conversions > 0 /\ total_files > ErrorsShown
              THEN total_files - ErrorsShown ELSE 0]

\* lines 315-329: the summary
Summary ==
    [total |-> total_files,
     succeeded |-> successful_conversions,
     failed |-> failed_conversions,
     shown |-> IF failed_conversions > 0
               THEN SubSeq(error_messages, 1,
                           IF Len(error_messages) < ErrorsShown
                           THEN Len(error_messages) ELSE ErrorsShown)
               ELSE <<>>,
     more |-> IF failed_conversions > 0 /\ Len(error_messages) > ErrorsShown
              THEN Len(error_messages) - ErrorsShown ELSE 0]

Report ==
    /\ pc = "Finalizing"
    /\ reports' = Append(reports, Summary)
    /\ pc' = "Done"
    /\ UNCHANGED << config, call, lister, PARALLEL, run, prev, xml_files, total_files, futures,
                    completion, as_started, early, yielded, workers, calls, dirs,
                    files, successful_conversions, failed_conversions,
                    error_messages, outcomes >>

\* lines 331-334: the script is run again on the same source tree, with
\* PARALLEL = True; the destination is either left as the first run made it or
\* removed before
Rerun ==
    /\ pc = "Done"
    /\ run = 1
    /\ run' = 2
    /\ PARALLEL' = TRUE
    /\ prev' = [done |-> TRUE, files |-> files, outcomes |-> outcomes,
                succeeded |-> successful_conversions, failed |-> failed_conversions,
                total |-> total_files]
    /\ pc' = "Idle"
    /\ xml_files' = <<>>
    /\ total_files' = 0
    /\ futures' = <<>>
    /\ completion' = <<>>
    /\ as_started' = FALSE
    /\ early' = {}
    /\ yielded' = {}
    /\ workers' = [w \in 1..MaxWorkers |-> IdleWorker]
    /\ calls' = <<>>
    /\ \/ dirs' = {} /\ files' = <<>>
       \/ dirs' = dirs /\ files' = files /\ dirs # {}
    /\ successful_conversions' = 0
    /\ failed_conversions' = 0
    /\ error_messages' = <<>>
    /\ outcomes' = <<>>
    /\ reports' = <<>>
    /\ UNCHANGED << config, call, lister >>

Next ==
    \/ Start
    \/ Enumerate
    \/ SubmitAll
    \/ SeqCall
    \/ AsCompletedStart
    \/ SeqCollect
    \/ Finalize
    \/ Report
    \/ Rerun
    \/ \E w \in 1..MaxWorkers :
          \/ TakeTask(w)
          \/ MkCheck(w)
          \/ MkDir(w)
          \/ Open(w)
          \/ LoopStep(w)
          \/ Crash(w)
    \/ \E i \in 1..Len(futures) : Collect(i)

Spec == Init /\ [][Next]_vars

(***************************************************************************)
(* The helpers called on their own: one call of convert_pascal_to_yolo or  *)
(* of get_class_id with arguments from a bounded set, main() not running.  *)
(***************************************************************************)
\* (size, box) arguments: every size and every box on a small grid, boxes that
\* leave the image or have no area included, and the size and box of the
\* documented example
ConvertArgs ==
    { << <<w, h>>, <<a, b, c, d>> >> :
        w \in 0..MaxDim, h \in 0..MaxDim,
        a \in 0..(MaxDim + 1), b \in 0..(MaxDim + 1),
        c \in 0..(MaxDim + 1), d \in 0..(MaxDim + 1) }
    \cup { << <<100, 50>>, <<10, 10, 30, 30>> >> }

\* class lists, with repeated entries, and the names looked up in them
CallTables == SeqsUpTo({"cat", "dog"}, MaxTable)

CallNames == {"cat", "dog", "bird", "Cat", ""}

CallInit ==
    /\ tree = <<>>
    /\ NUM_CORES = 1
    /\ PARALLEL = FALSE
    /\ run = 1
    /\ prev = NoPrev
    /\ ListerIdle
    /\ Fresh
    /\ \/ /\ OCR_CHARACTERS_NAME \in ClassTables
          /\ call \in {[fn |-> "convert_pascal_to_yolo", args |-> a, done |-> FALSE,
                        ret |-> NoCall.ret] : a \in ConvertArgs}
       \/ /\ OCR_CHARACTERS_NAME \in CallTables
          /\ call \in {[fn |-> "get_class_id", args |-> <<n>>, done |-> FALSE,
                        ret |-> NoCall.ret] : n \in CallNames}

\* lines 57-83
CallConvert ==
    /\ call.fn = "convert_pascal_to_yolo"
    /\ ~call.done
    /\ call' = [call EXCEPT !.done = TRUE,
                            !.ret = convert_pascal_to_yolo(call.args[1], call.args[2])]
    /\ UNCHANGED << config, lister, PARALLEL, run, prev, pc, xml_files, total_files, futures,
                    completion, as_started, early, yielded, workers, calls, dirs,
                    files, successful_conversions, failed_conversions,
                    error_messages, outcomes, reports >>

\* lines 39-55
CallGetClassId ==
    /\ call.fn = "get_class_id"
    /\ ~call.done
    /\ call' = [call EXCEPT !.done = TRUE,
                            !.ret = get_class_id(call.args[1], OCR_CHARACTERS_NAME)]
    /\ UNCHANGED << config, lister, PARALLEL, run, prev, pc, xml_files, total_files, futures,
                    completion, as_started, early, yielded, workers, calls, dirs,
                    files, successful_conversions, failed_conversions,
                    error_messages, outcomes, reports >>

CallNext == CallConvert \/ CallGetClassId

CallSpec == CallInit /\ [][CallNext]_vars

(***************************************************************************)
(* main() on a source directory that holds a file named ".xml" and a file  *)
(* named ".xml.xml": both names end with '.xml' (line 234), and splitext   *)
(* (line 158) finds no extension in the first.                             *)
(***************************************************************************)
DotfileUnit == Xml(TRUE, SizeElem(100, 50), NoSiblings, NoFilename, <<ObjDog, ObjCat>>)

DotfileTrees ==
    LET bare == [path |-> [dir |-> PASCAL_FORMAT_LABEL_PATH \o <<"a">>, name |-> <<".xml">>],
                 xml |-> UnitGood]
        twice == [path |-> [dir |-> PASCAL_FORMAT_LABEL_PATH \o <<"a">>,
                            name |-> <<".xml", ".xml">>],
                  xml |-> DotfileUnit]
    IN { <<bare, twice>>, <<twice, bare>>, <<twice, FileOfKind(2, "good")>> }

DotfileInit ==
    /\ tree \in DotfileTrees
    /\ NUM_CORES \in 1..MaxWorkers
    /\ OCR_CHARACTERS_NAME \in ClassTables
    /\ PARALLEL = FALSE
    /\ run = 1
    /\ prev = NoPrev
    /\ call = NoCall
    /\ ListerIdle
    /\ Fresh

DotfileSpec == DotfileInit /\ [][Next]_vars

(***************************************************************************)
(* One sequential invocation of main() (PARALLEL = False, lines 286-313)   *)
(* over a long tree: more failing units than the summary shows.            *)
(***************************************************************************)
\* a tree of n annotation files, the first f of them failing
LongTree(n, f) ==
    [i \in 1..n |->
        [path |-> PathOf(i, ".xml"),
         xml |-> IF i > f THEN UnitGood
                 ELSE IF i % 2 = 1 THEN UnitUnresolved ELSE UnitUnparseable]]

LongTrees ==
    {LongTree(f, f) : f \in 0..MaxLong} \cup {LongTree(f + 1, f) : f \in 0..MaxLong}

LongInit ==
    /\ tree \in LongTrees
    /\ NUM_CORES = 1
    /\ OCR_CHARACTERS_NAME \in ClassTables
    /\ PARALLEL = FALSE
    /\ run = 1
    /\ prev = NoPrev
    /\ call = NoCall
    /\ ListerIdle
    /\ Fresh

SeqNext ==
    \/ Start
    \/ Enumerate
    \/ SeqCall
    \/ MkCheck(1)
    \/ MkDir(1)
    \/ Open(1)
    \/ LoopStep(1)
    \/ SeqCollect
    \/ Finalize
    \/ Report

LongSpec == LongInit /\ [][SeqNext]_vars

(***************************************************************************)
(* main() with processes that keep running: no worker process dies, and    *)
(* as long as the main process or a worker has a step to take, one of them *)
(* takes a step eventually.  Running the script a second time is left      *)
(* open.                                                                   *)
(***************************************************************************)
MainStep ==
    \/ Start
    \/ Enumerate
    \/ SubmitAll
    \/ SeqCall
    \/ AsCompletedStart
    \/ SeqCollect
    \/ Finalize
    \/ Report
    \/ \E i \in 1..Len(futures) : Collect(i)

WorkerStep(w) ==
    \/ TakeTask(w)
    \/ MkCheck(w)
    \/ MkDir(w)
    \/ Open(w)
    \/ LoopStep(w)

FairInit ==
    /\ tree \in MixedTrees
    /\ NUM_CORES \in 1..MaxWorkers
    /\ OCR_CHARACTERS_NAME \in ClassTables
    /\ PARALLEL = FALSE
    /\ run = 1
    /\ prev = NoPrev
    /\ call = NoCall
    /\ ListerIdle
    /\ Fresh

FairNext == MainStep \/ Rerun \/ \E w \in 1..MaxWorkers : WorkerStep(w)

FairSpec ==
    /\ FairInit
    /\ [][FairNext]_vars
    /\ WF_vars(MainStep \/ \E w \in 1..MaxWorkers : WorkerStep(w))

(***************************************************************************)
(* VOC_class_lister.py: the class names of a folder of annotation files.   *)
(***************************************************************************)
\* obj.find('name').text of an element without text
NameNone == "<None>"

\* the class names of the inputs, in the order of str.__lt__ (code points)
CodePointOrder == <<"Bird", "cat", "dog">>

MAX_CORES == 8

\* an entry of the folder: its name, whether ET.parse accepts it, and the
\* <name> of each <object> child of the root (NoNameElem: there is none)
Entry(name, parses, names) == [name |-> name, parses |-> parses, names |-> names]

EntryKinds ==
    { Entry(<<"a", ".xml">>, TRUE, <<"dog", "cat", "dog">>),
      Entry(<<"b", ".xml">>, TRUE, <<"cat">>),
      Entry(<<"c", ".xml">>, TRUE, <<"Bird", "dog", NoNameElem, "cat">>),
      Entry(<<"d", ".xml">>, FALSE, <<>>),
      Entry(<<"e", ".xml">>, TRUE, <<NameNone>>),
      Entry(<<"notes", ".txt">>, TRUE, <<>>) }

\* the names of a folder are distinct
Listing(q) == \A i, j \in 1..Len(q) : q[i].name = q[j].name => i = j

Folders ==
    {[isdir |-> TRUE, entries |-> q] : q \in {t \in SeqsUpTo(EntryKinds, MaxListed) : Listing(t)}}
       \cup {[isdir |-> FALSE, entries |-> <<>>]}

\* lines 41-46: the loop over root.findall('object'), from object k
RECURSIVE ObjectLoop(_, _, _)
ObjectLoop(names, k, classes) ==
    IF k > Len(names) THEN classes
    ELSE IF names[k] = NoNameElem THEN classes
    ELSE ObjectLoop(names, k + 1, classes \cup {names[k]})

\* process_xml_file(file_path) of the lister: the set of class names of a
\* file; the empty set for a file that does not parse, the names found so
\* far when an object has no <name>
lister_process_xml_file(file) ==
    IF ~file.parses THEN {}
    ELSE ObjectLoop(file.names, 1, {})

\* line 176
num_workers ==
    IF MAX_CORES # 0
    THEN (IF MAX_CORES < available_cores THEN MAX_CORES ELSE available_cores)
    ELSE available_cores

\* lines 159-161: the indexes of the entries that end in '.xml', in order
ListXml(entries) ==
    SelectSeq([i \in 1..Len(entries) |-> i], LAMBDA i : endswith_xml(entries[i].name))

FileAt(i) == folder.entries[i]

ListerInit ==
    /\ tree = <<>>
    /\ OCR_CHARACTERS_NAME = <<>>
    /\ NUM_CORES = 1
    /\ PARALLEL = FALSE
    /\ run = 1
    /\ prev = NoPrev
    /\ call = NoCall
    /\ Fresh
    /\ folder \in Folders
    /\ USE_PARALLEL \in BOOLEAN
    /\ available_cores \in 1..MaxWorkers
    /\ ~USE_PARALLEL => available_cores = 1
    /\ lpc = "Start"
    /\ file_list = <<>>
    /\ pool = [w \in 1..MaxWorkers |-> 0]
    /\ handed = 0
    /\ results = <<>>
    /\ combined = 0
    /\ class_counts = <<>>
    /\ output = NotSaved

converter == << config, call, PARALLEL, run, prev, pc, xml_files, total_files, futures,
                completion, as_started, early, yielded, workers, calls, dirs, files,
                successful_conversions, failed_conversions, error_messages, outcomes,
                reports >>

\* lines 154-181: the folder is listed and the mode chosen
ListFiles ==
    /\ lpc = "Start"
    /\ IF ~folder.isdir
       THEN lpc' = "Returned" /\ file_list' = file_list
       ELSE /\ file_list' = ListXml(folder.entries)
            /\ lpc' = IF file_list' = <<>> THEN "Returned"
                      ELSE IF USE_PARALLEL THEN "Pool"
                      ELSE "Sequential"
    /\ UNCHANGED << converter, folder, USE_PARALLEL, available_cores, pool, handed,
                    results, combined, class_counts, output >>

\* a worker of the pool takes the next file of the list
PoolTake(w) ==
    /\ lpc = "Pool"
    /\ w <= num_workers
    /\ pool[w] = 0
    /\ handed < Len(file_list)
    /\ handed' = handed + 1
    /\ pool' = [pool EXCEPT ![w] = file_list[handed + 1]]
    /\ UNCHANGED << converter, folder, USE_PARALLEL, available_cores, lpc, file_list,
                    results, combined, class_counts, output >>

\* lines 100-104: a worker is done with its file; imap_unordered yields the
\* class set and the loop appends it
PoolYield(w) ==
    /\ lpc = "Pool"
    /\ pool[w] # 0
    /\ results' = Append(results, lister_process_xml_file(FileAt(pool[w])))
    /\ pool' = [pool EXCEPT ![w] = 0]
    /\ UNCHANGED << converter, folder, USE_PARALLEL, available_cores, lpc, file_list,
                    handed, combined, class_counts, output >>

\* lines 128-131: the next file of the list is processed in the main process
SequentialStep ==
    /\ lpc = "Sequential"
    /\ Len(results) < Len(file_list)
    /\ results' = Append(results, lister_process_xml_file(FileAt(file_list[Len(results) + 1])))
    /\ UNCHANGED << converter, folder, USE_PARALLEL, available_cores, lpc, file_list,
                    pool, handed, combined, class_counts, output >>

\* lines 120, 143, 184: all the files are processed and the list is returned
ReturnResults ==
    /\ lpc \in {"Pool", "Sequential"}
    /\ Len(results) = Len(file_list)
    /\ lpc' = "Combine"
    /\ UNCHANGED << converter, folder, USE_PARALLEL, available_cores, file_list, pool,
                    handed, results, combined, class_counts, output >>

\* the orders in which a set can be iterated
OrdersOf(S) ==
    {q \in SeqsUpTo(S, Cardinality(S)) :
        Len(q) = Cardinality(S) /\ {q[i] : i \in 1..Len(q)} = S}

Keys(d) == [i \in 1..Len(d) |-> d[i][1]]

\* class_counts[class_name] += 1 on a defaultdict(int)
Increment(d, class_name) ==
    IF \E i \in 1..Len(d) : d[i][1] = class_name
    THEN [i \in 1..Len(d) |->
             IF d[i][1] = class_name THEN <<class_name, d[i][2] + 1>> ELSE d[i]]
    ELSE Append(d, <<class_name, 1>>)

\* line 186-187: the names of one class set, in the order of the iteration
RECURSIVE Tally(_, _)
Tally(d, order) ==
    IF order = <<>> THEN d
    ELSE Tally(Increment(d, Head(order)), Tail(order))

\* lines 185-187: one class set of the results is added to the counts
Combine ==
    /\ lpc = "Combine"
    /\ combined < Len(results)
    /\ \E order \in OrdersOf(results[combined + 1]) :
          class_counts' = Tally(class_counts, order)
    /\ combined' = combined + 1
    /\ UNCHANGED << converter, folder, USE_PARALLEL, available_cores, lpc, file_list,
                    pool, handed, results, output >>

Rank(class_name) ==
    CHOOSE i \in 1..Len(CodePointOrder) : CodePointOrder[i] = class_name

\* a < b of two keys; None cannot be compared
Comparable(keys) ==
    Len(keys) < 2 \/ \A i \in 1..Len(keys) : keys[i] # NameNone

\* x is put behind the last element of the sorted q that is not greater
RECURSIVE Insort(_, _)
Insort(q, x) ==
    IF q = <<>> THEN <<x>>
    ELSE IF Rank(x) < Rank(q[Len(q)])
         THEN Append(Insort(SubSeq(q, 1, Len(q) - 1), x), q[Len(q)])
         ELSE Append(q, x)

RECURSIVE SortFrom(_, _, _)
SortFrom(keys, k, q) ==
    IF k > Len(keys) THEN q
    ELSE SortFrom(keys, k + 1, Insort(q, keys[k]))

\* the keys as the dict holds them
sorted_insertion_order(keys) == keys

\* sorted(keys) of keys that can be compared
sorted(keys) ==
    IF Len(keys) < 2 THEN keys ELSE SortFrom(keys, 1, <<>>)

\* repr() of a list element
Repr(class_name) ==
    IF class_name = NameNone THEN "None" ELSE "'" \o class_name \o "'"

\* str(unique_classes), element by element
StrList(q) == [i \in 1..Len(q) |-> Repr(q[i])]

\* lines 190-194: the keys are sorted and the list is written
Save ==
    /\ lpc = "Combine"
    /\ combined = Len(results)
    /\ IF Comparable(Keys(class_counts))
       THEN /\ output' = [saved |-> TRUE, text |-> StrList(sorted(Keys(class_counts)))]
            /\ lpc' = "Saved"
       ELSE /\ output' = output
            /\ lpc' = "TypeError"
    /\ UNCHANGED << converter, folder, USE_PARALLEL, available_cores, file_list, pool,
                    handed, results, combined, class_counts >>

\* lines 200-214: the report; max() of no class and len(None) raise
Distribution ==
    /\ lpc = "Saved"
    /\ lpc' = IF class_counts = <<>> THEN "ValueError"
              ELSE IF \E i \in 1..Len(class_counts) : class_counts[i][1] = NameNone
                   THEN "TypeError"
              ELSE "Done"
    /\ UNCHANGED << converter, folder, USE_PARALLEL, available_cores, file_list, pool,
                    handed, results, combined, class_counts, output >>

ListerNext ==
    \/ ListFiles
    \/ \E w \in 1..MaxWorkers : PoolTake(w)
    \/ \E w \in 1..MaxWorkers : PoolYield(w)
    \/ SequentialStep
    \/ ReturnResults
    \/ Combine
    \/ Save
    \/ Distribution

ListerSpec == ListerInit /\ [][ListerNext]_vars

(***************************************************************************)
(* Vocabulary of the properties.                                           *)
(***************************************************************************)
UnitAt(i) == ReadXml(xml_files[i])

YoloAt(i) == yolo_path_of(xml_files[i], YOLO_FORMAT_LABEL_PATH)

\* the call on unit i has returned a result tuple
Returned(i) ==
    i \in 1..Len(futures) /\ futures[i].state = "finished" /\ ~futures[i].exc

\* how many results the loop body has processed for unit i
OutcomeCount(i) == Cardinality({n \in 1..Len(outcomes) : outcomes[n][2] = xml_files[i]})

\* an object the conversion can emit: a listed class and four numeric box fields
ValidObj(o) ==
    /\ o.name # NoNameElem
    /\ InTable(o.name, OCR_CHARACTERS_NAME)
    /\ o.bndbox.present
    /\ o.bndbox.xmin >= 0 /\ o.bndbox.ymin >= 0
    /\ o.bndbox.xmax >= 0 /\ o.bndbox.ymax >= 0

\* an object with a class name that is not in the class list
UnknownObj(o) == o.name # NoNameElem /\ ~InTable(o.name, OCR_CHARACTERS_NAME)

\* an object without <name>, without <bndbox>, or with a <bndbox> that lacks a field
MalformedObj(o) ==
    \/ o.name = NoNameElem
    \/ ~o.bndbox.present
    \/ TextMissing \in {o.bndbox.xmin, o.bndbox.ymin, o.bndbox.xmax, o.bndbox.ymax}

LineOf(o, size) ==
    << get_class_id(o.name, OCR_CHARACTERS_NAME).id >> \o
    convert_pascal_to_yolo(size, <<o.bndbox.xmin, o.bndbox.ymin,
                                   o.bndbox.xmax, o.bndbox.ymax>>).box

\* one line per valid object, in the order of the objects
RECURSIVE ValidLines(_, _)
ValidLines(objs, size) ==
    IF objs = <<>> THEN <<>>
    ELSE IF ValidObj(objs[1]) THEN <<LineOf(objs[1], size)>> \o ValidLines(Tail(objs), size)
    ELSE ValidLines(Tail(objs), size)

\* the unit has a size with positive dimensions
PositiveSize(u) ==
    /\ get_image_size(u).kind = "return"
    /\ get_image_size(u).size[1] > 0
    /\ get_image_size(u).size[2] > 0

(***************************************************************************)
(* The sources of a size, in the order of the fallback chain:              *)
(* 1 the <size> element, 2..5 the sibling image of each extension,         *)
(* 6 the file named by <filename>.                                         *)
(***************************************************************************)
NumSources == Len(ImageExts) + 2

Supplies(u, src) ==
    IF src = 1 THEN u.size.present /\ u.size.width >= 0 /\ u.size.height >= 0
    ELSE IF src = NumSources
    THEN u.filename.present /\ u.filename.img.exists /\ u.filename.img.readable
    ELSE u.sib[src - 1].exists /\ u.sib[src - 1].readable

SizeFrom(u, src) ==
    IF src = 1 THEN <<u.size.width, u.size.height>>
    ELSE IF src = NumSources THEN u.filename.img.size
    ELSE u.sib[src - 1].size

(***************************************************************************)
(* C1.  Whatever the pool size, the mode and the completion order: when    *)
(* the summary is computed, every enumerated unit has contributed exactly  *)
(* one outcome, and successful_conversions + failed_conversions =          *)
(* total_files; every summary printed says so.                             *)
(***************************************************************************)
C1_OneOutcomePerUnit ==
    /\ pc \in {"Finalizing", "Done"} =>
          /\ \A i \in 1..total_files : OutcomeCount(i) = 1
          /\ Len(outcomes) = total_files
          /\ successful_conversions + failed_conversions = total_files
    /\ \A n \in 1..Len(reports) :
          reports[n].succeeded + reports[n].failed = reports[n].total

\* a parallel run of three units on two workers is done, with successes and
\* failures, the first outcome collected not being the first unit's
C1_Witness ==
    /\ pc = "Done"
    /\ PARALLEL
    /\ NUM_CORES = 2
    /\ total_files = 3
    /\ reports # <<>>
    /\ failed_conversions >= 1
    /\ successful_conversions >= 1
    /\ outcomes[1][2] # xml_files[1]

(***************************************************************************)
(* C2.  A worker that dies while it holds a task leaves a future that      *)
(* holds an exception.  The claim: the coordinator records an outcome for  *)
(* that unit and goes on collecting, it does not give up.                  *)
(***************************************************************************)
C2_WorkerFailureRecorded ==
    /\ pc # "Aborted"
    /\ \A i \in yielded : futures[i].exc => OutcomeCount(i) = 1

(***************************************************************************)
(* C3.  A unit that fails does not end the batch and is not tried again:   *)
(* process_xml_file is started at most once per unit, main gives up only   *)
(* on a future that holds an exception (never on a failure outcome), with  *)
(* failures counted it still has a step to take while it is in the loop,   *)
(* and it leaves the loop only when every unit has been called once and    *)
(* has its outcome.                                                        *)
(***************************************************************************)
C3_FailureIsolated ==
    /\ \A i \in DOMAIN calls : calls[i] <= 1
    /\ pc = "Aborted" => \E i \in yielded : futures[i].exc
    /\ (pc = "Running" /\ failed_conversions > 0) => ENABLED Next
    /\ pc \in {"Finalizing", "Done"} =>
          \A i \in 1..total_files : calls[i] = 1 /\ Returned(i) /\ OutcomeCount(i) = 1

\* a parallel run is done in which a failure was collected first and a success
\* after it
C3_Witness ==
    /\ pc = "Done"
    /\ PARALLEL
    /\ total_files = 3
    /\ ~outcomes[1][1]
    /\ outcomes[3][1]
    /\ \A i \in 1..total_files : calls[i] = 1

(***************************************************************************)
(* C4.  The second invocation (the pool) ends with the same output files   *)
(* with the same contents, the same outcome for every unit and the same    *)
(* counts as the first one (the sequential loop) on the same tree; and in  *)
(* every output file of a successful unit the lines follow the order of    *)
(* the objects.                                                            *)
(***************************************************************************)
C4_SequentialEqualsParallel ==
    /\ (run = 2 /\ pc = "Done") =>
          /\ prev.done
          /\ files = prev.files
          /\ {outcomes[n] : n \in 1..Len(outcomes)} =
             {prev.outcomes[n] : n \in 1..Len(prev.outcomes)}
          /\ Len(outcomes) = Len(prev.outcomes)
          /\ successful_conversions = prev.succeeded
          /\ failed_conversions = prev.failed
          /\ total_files = prev.total
    /\ \A i \in 1..Len(futures) :
          (Returned(i) /\ futures[i].result[1]) =>
              files[YoloAt(i)] =
                  ValidLines(UnitAt(i).objects, get_image_size(UnitAt(i)).size)

\* the pool run of three units on two workers is done, its outcomes arrived in
\* another order than in the sequential run, and files were written
C4_Witness ==
    /\ run = 2
    /\ pc = "Done"
    /\ NUM_CORES = 2
    /\ total_files = 3
    /\ outcomes # prev.outcomes
    /\ DOMAIN files # {}
    /\ failed_conversions >= 1

(***************************************************************************)
(* C5.  Partial success.  The claim: a unit with a positive size whose     *)
(* named objects all have listed classes and in which exactly one object   *)
(* is malformed (no <name>, no <bndbox>, or a <bndbox> without one of its  *)
(* fields) while the others are valid is a success, and its file holds one *)
(* line per valid object, in order.                                        *)
(***************************************************************************)
OneMalformed(u) ==
    /\ PositiveSize(u)
    /\ \A n \in 1..Len(u.objects) : ~UnknownObj(u.objects[n])
    /\ Cardinality({n \in 1..Len(u.objects) : MalformedObj(u.objects[n])}) = 1
    /\ \A n \in 1..Len(u.objects) :
          MalformedObj(u.objects[n]) \/ ValidObj(u.objects[n])

C5_PartialSuccess ==
    \A i \in 1..Len(futures) :
        (Returned(i) /\ OneMalformed(UnitAt(i))) =>
            /\ futures[i].result[1]
            /\ YoloAt(i) \in DOMAIN files
            /\ files[YoloAt(i)] =
                  ValidLines(UnitAt(i).objects, get_image_size(UnitAt(i)).size)

(***************************************************************************)
(* C6.  An unknown class costs the object, not the unit: a unit with a     *)
(* positive size whose objects are each either of an unlisted class or     *)
(* valid is a success, and its file holds the lines of the valid objects   *)
(* in order (none, when every class is unlisted).                          *)
(***************************************************************************)
UnknownOrValid(u) ==
    /\ PositiveSize(u)
    /\ \A n \in 1..Len(u.objects) : UnknownObj(u.objects[n]) \/ ValidObj(u.objects[n])

C6_UnknownClassSkipped ==
    \A i \in 1..Len(futures) :
        (Returned(i) /\ UnknownOrValid(UnitAt(i))) =>
            /\ futures[i].result = <<TRUE, xml_files[i], MsgSuccess>>
            /\ YoloAt(i) \in DOMAIN files
            /\ files[YoloAt(i)] =
                  ValidLines(UnitAt(i).objects, get_image_size(UnitAt(i)).size)

\* a unit with an unlisted class between two valid objects has returned, and its
\* file holds the two lines
C6_Witness ==
    \E i \in 1..Len(futures) :
        /\ Returned(i)
        /\ UnknownOrValid(UnitAt(i))
        /\ Len(UnitAt(i).objects) = 3
        /\ ValidObj(UnitAt(i).objects[1])
        /\ UnknownObj(UnitAt(i).objects[2])
        /\ ValidObj(UnitAt(i).objects[3])
        /\ UnitAt(i).objects[1] # UnitAt(i).objects[3]
        /\ Len(files[YoloAt(i)]) = 2

(***************************************************************************)
(* C7.  A unit without <size>, without a sibling image of any extension    *)
(* and without an existing file named by <filename> ends as a failure with *)
(* the "could not find the image" message, and its task writes nothing:    *)
(* the step that ends it changes no file and no directory, its output file *)
(* never exists, and every directory under the destination is on the path  *)
(* of the output of some other unit.                                       *)
(***************************************************************************)
NoSizeSource(u) ==
    /\ u.parseable
    /\ ~u.size.present
    /\ \A j \in 1..Len(ImageExts) : ~u.sib[j].exists
    /\ ~(u.filename.present /\ u.filename.img.exists)

IsPrefix(p, q) == Len(p) <= Len(q) /\ SubSeq(q, 1, Len(p)) = p

C7_State ==
    /\ \A i \in 1..total_files :
          NoSizeSource(UnitAt(i)) =>
              /\ YoloAt(i) \notin DOMAIN files
              /\ Returned(i) =>
                    futures[i].result = <<FALSE, xml_files[i], MsgNoImage>>
    /\ \A d \in dirs :
          \E j \in 1..Len(SelectXml(tree)) :
              /\ ~NoSizeSource(ReadXml(SelectXml(tree)[j]))
              /\ IsPrefix(d, yolo_path_of(SelectXml(tree)[j], YOLO_FORMAT_LABEL_PATH).dir)

C7_Step ==
    \A i \in 1..total_files :
        (NoSizeSource(UnitAt(i)) /\ ~Returned(i) /\ Returned(i)') =>
            (files' = files /\ dirs' = dirs)

C7_UnresolvedWritesNothing == []C7_State /\ [][C7_Step]_vars

\* in a batch, a unit without any size source has failed while another unit has
\* its output file
C7_Witness ==
    \E i, j \in 1..Len(futures) :
        /\ NoSizeSource(UnitAt(i))
        /\ Returned(i)
        /\ ~futures[i].result[1]
        /\ Returned(j)
        /\ futures[j].result[1]
        /\ YoloAt(j) \in DOMAIN files
        /\ YoloAt(j).dir = YoloAt(i).dir

(***************************************************************************)
(* C8.  The claim: get_image_size fails only if all its sources fail; if   *)
(* the <size> element, a sibling image or the file named by <filename> can *)
(* supply a size, the call returns one.                                    *)
(***************************************************************************)
C8_FailsOnlyIfAllFail ==
    \A i \in 1..Len(futures) :
        (calls[i] >= 1 /\ UnitAt(i).parseable
            /\ \E src \in 1..NumSources : Supplies(UnitAt(i), src)) =>
            /\ get_image_size(UnitAt(i)).kind = "return"
            /\ Returned(i) =>
                  futures[i].result[3] \notin {MsgNoImage, MsgUnreadable, MsgBadInt}

(***************************************************************************)
(* C9.  When get_image_size returns a size, it is the size of the earliest *)
(* source: the <size> element if there is one, else the first sibling      *)
(* image that exists in the order .jpg, .jpeg, .png, .bmp, else the file   *)
(* named by <filename>, which is read only if no sibling exists.  The task *)
(* works with that size.                                                   *)
(***************************************************************************)
EarliestSize(u, size) ==
    /\ \E src \in 1..NumSources :
          /\ Supplies(u, src)
          /\ size = SizeFrom(u, src)
          /\ \A t \in 1..(src - 1) : ~Supplies(u, t)
    /\ u.size.present => size = SizeFrom(u, 1)
    /\ (~u.size.present /\ \E j \in 1..Len(ImageExts) : u.sib[j].exists) =>
          \E j \in 1..Len(ImageExts) :
              /\ size = SizeFrom(u, j + 1)
              /\ \A t \in 1..(j - 1) : ~u.sib[t].exists

C9_FirstSourceWins ==
    /\ \A i \in 1..Len(futures) :
          (calls[i] >= 1 /\ get_image_size(UnitAt(i)).kind = "return") =>
              EarliestSize(UnitAt(i), get_image_size(UnitAt(i)).size)
    /\ \A w \in 1..MaxWorkers :
          workers[w].pos # "idle" =>
              EarliestSize(UnitAt(workers[w].task),
                           <<workers[w].width, workers[w].height>>)

\* a task works with the size of the .png sibling: there is no <size>, no .jpg
\* and no .jpeg, and the .bmp sibling and the <filename> file are readable too
C9_Witness ==
    \E w \in 1..MaxWorkers :
        /\ workers[w].pos = "open"
        /\ LET u == UnitAt(workers[w].task)
           IN /\ ~u.size.present
              /\ ~u.sib[1].exists /\ ~u.sib[2].exists
              /\ Supplies(u, 4) /\ Supplies(u, 5) /\ Supplies(u, 6)
              /\ <<workers[w].width, workers[w].height>> = SizeFrom(u, 4)
              /\ SizeFrom(u, 4) # SizeFrom(u, 5)
              /\ SizeFrom(u, 4) # SizeFrom(u, 6)

(***************************************************************************)
(* C10.  The claim: every size get_image_size hands to the task has a      *)
(* positive width and a positive height, so that no conversion divides by  *)
(* zero.                                                                   *)
(***************************************************************************)
C10_SizePositive ==
    /\ \A w \in 1..MaxWorkers :
          workers[w].pos # "idle" => workers[w].width > 0 /\ workers[w].height > 0
    /\ \A i \in 1..Len(futures) :
          Returned(i) => futures[i].result[3] # MsgZeroDiv

(***************************************************************************)
(* C11.  For every size (w, h) with w, h > 0 and every box with            *)
(* 0 <= xmin < xmax <= w and 0 <= ymin < ymax <= h, convert_pascal_to_yolo *)
(* returns four numbers in [0, 1], and the inverse formula                 *)
(* (x*w - bw*w/2, y*h - bh*h/2, x*w + bw*w/2, y*h + bh*h/2) gives back     *)
(* (xmin, ymin, xmax, ymax), exactly, in rational arithmetic.              *)
(***************************************************************************)
RatPlus(p, q) == Rat(p[1] * q[2] + q[1] * p[2], p[2] * q[2])

RatMinus(p, q) == Rat(p[1] * q[2] - q[1] * p[2], p[2] * q[2])

\* q >= 0
RatTimes(p, q) == IF q[1] = 0 THEN <<0, 1>> ELSE Rat(p[1] * q[1], p[2] * q[2])

RatInt(n) == <<n, 1>>

InUnitInterval(r) == 0 <= r[1] /\ r[1] <= r[2]

WellFormed(size, box) ==
    /\ size[1] > 0 /\ size[2] > 0
    /\ 0 <= box[1] /\ box[1] < box[3] /\ box[3] <= size[1]
    /\ 0 <= box[2] /\ box[2] < box[4] /\ box[4] <= size[2]

InverseBox(size, y) ==
    LET w == RatInt(size[1])
        h == RatInt(size[2])
        half == <<1, 2>>
    IN << RatMinus(RatTimes(y[1], w), RatTimes(RatTimes(y[3], w), half)),
          RatMinus(RatTimes(y[2], h), RatTimes(RatTimes(y[4], h), half)),
          RatPlus(RatTimes(y[1], w), RatTimes(RatTimes(y[3], w), half)),
          RatPlus(RatTimes(y[2], h), RatTimes(RatTimes(y[4], h), half)) >>

C11_RoundTrip ==
    (call.fn = "convert_pascal_to_yolo" /\ call.done
        /\ WellFormed(call.args[1], call.args[2])) =>
        /\ ~call.ret.raised
        /\ \A k \in 1..4 : InUnitInterval(call.ret.box[k])
        /\ InverseBox(call.args[1], call.ret.box) =
              [k \in 1..4 |-> RatInt(call.args[2][k])]

\* the call on size (3, 2) and box (0, 0, 3, 1) has returned: a centre that is
\* no integer, a width of exactly 1
C11_Witness ==
    /\ call.fn = "convert_pascal_to_yolo"
    /\ call.done
    /\ call.args = << <<3, 2>>, <<0, 0, 3, 1>> >>
    /\ WellFormed(call.args[1], call.args[2])
    /\ call.ret.box = << <<1, 2>>, <<1, 4>>, <<1, 1>>, <<1, 2>> >>

(***************************************************************************)
(* C12.  A unit with an embedded size (w, h), w, h > 0, whose objects all  *)
(* have a listed class and a box of four numbers is a success; its output  *)
(* file is <destination>/<directories below the source root>/<name with    *)
(* the extension replaced by .txt> and holds exactly one line per object,  *)
(* in order: the zero-based index of the class, (xmin+xmax)/(2w),          *)
(* (ymin+ymax)/(2h), (xmax-xmin)/w, (ymax-ymin)/h, not clamped, whatever   *)
(* the file held before.  The unit in/a/img1.xml with size (100, 50) and   *)
(* the object cat (10,10,30,30) gives out/a/img1.txt with the single line  *)
(* 0 0.2 0.4 0.2 0.4.                                                      *)
(***************************************************************************)
AllValid(u) ==
    /\ u.parseable
    /\ u.size.present
    /\ u.size.width > 0 /\ u.size.height > 0
    /\ \A n \in 1..Len(u.objects) : ValidObj(u.objects[n])

ExpectedPath(xml_path) ==
    [dir |-> YOLO_FORMAT_LABEL_PATH \o
                SubSeq(xml_path.dir, Len(PASCAL_FORMAT_LABEL_PATH) + 1, Len(xml_path.dir)),
     name |-> [k \in 1..Len(xml_path.name) |->
                 IF k = Len(xml_path.name) THEN ".txt" ELSE xml_path.name[k]]]

ExpectedLine(o, w, h) ==
    << (CHOOSE k \in 1..Len(OCR_CHARACTERS_NAME) : OCR_CHARACTERS_NAME[k] = o.name) - 1,
       Rat(o.bndbox.xmin + o.bndbox.xmax, 2 * w),
       Rat(o.bndbox.ymin + o.bndbox.ymax, 2 * h),
       Rat(o.bndbox.xmax - o.bndbox.xmin, w),
       Rat(o.bndbox.ymax - o.bndbox.ymin, h) >>

C12_OutputFile ==
    \A i \in 1..Len(futures) :
        (Returned(i) /\ AllValid(UnitAt(i))) =>
            LET u == UnitAt(i)
                path == ExpectedPath(xml_files[i])
            IN /\ futures[i].result = <<TRUE, xml_files[i], MsgSuccess>>
               /\ path \in DOMAIN files
               /\ files[path] =
                     [n \in 1..Len(u.objects) |->
                        ExpectedLine(u.objects[n], u.size.width, u.size.height)]
               /\ (xml_files[i] = [dir |-> <<"in", "a">>, name |-> <<"img1", ".xml">>]
                     /\ u = UnitGood) =>
                     /\ path = [dir |-> <<"out", "a">>, name |-> <<"img1", ".txt">>]
                     /\ files[path] = << <<0, <<1, 5>>, <<2, 5>>, <<1, 5>>, <<2, 5>> >> >>

\* in the second run, over the files of the first: a unit of three objects, one
\* of them wider than the image, has returned and its file holds three lines
C12_Witness ==
    \E i \in 1..Len(futures) :
        /\ run = 2
        /\ Returned(i)
        /\ AllValid(UnitAt(i))
        /\ ExpectedPath(xml_files[i]) \in DOMAIN prev.files
        /\ Len(UnitAt(i).objects) = 3
        /\ Len(prev.files[ExpectedPath(xml_files[i])]) = 3
        /\ Len(files[ExpectedPath(xml_files[i])]) = 3
        /\ \E n \in 1..3 : LET r == files[ExpectedPath(xml_files[i])][n][4]
                           IN r[1] > r[2]
        /\ files[ExpectedPath(xml_files[i])][1] # files[ExpectedPath(xml_files[i])][2]

(***************************************************************************)
(* C13.  get_class_id on a name that is no entry of the class list raises  *)
(* the "not found in OCR_CHARACTERS_NAME list" error and returns no index; *)
(* on an entry it returns the zero-based position i of the first           *)
(* occurrence: 0 <= i < length of the list, list[i] = name, and no earlier *)
(* entry equals the name.                                                  *)
(***************************************************************************)
C13_ClassIndex ==
    (call.fn = "get_class_id" /\ call.done) =>
        LET name == call.args[1]
            t == OCR_CHARACTERS_NAME
        IN IF \E k \in 1..Len(t) : t[k] = name
           THEN /\ ~call.ret.raised
                /\ 0 <= call.ret.id /\ call.ret.id < Len(t)
                /\ t[call.ret.id + 1] = name
                /\ \A j \in 1..call.ret.id : t[j] # name
           ELSE /\ call.ret.raised
                /\ call.ret.msg = MsgNotInList
                /\ call.ret.id < 0

\* "cat" looked up in [dog, cat, cat] has returned 1
C13_Witness ==
    /\ call.fn = "get_class_id"
    /\ call.done
    /\ OCR_CHARACTERS_NAME = <<"dog", "cat", "cat">>
    /\ call.args = <<"cat">>
    /\ ~call.ret.raised
    /\ call.ret.id = 1

(***************************************************************************)
(* C14.  The claim: no two enumerated units have the same output path, and *)
(* every output file that exists is the output file of exactly one unit,   *)
(* the one whose task created it.                                          *)
(***************************************************************************)
C14_OwnOutputPath ==
    /\ \A i, j \in 1..total_files : i # j => YoloAt(i) # YoloAt(j)
    /\ pc \in {"Running", "Finalizing", "Done"} =>
          \A f \in DOMAIN files :
              Cardinality({i \in 1..total_files : YoloAt(i) = f}) = 1

(***************************************************************************)
(* C15.  The claim: when a run is done, every unit with a success outcome  *)
(* has its output file, empty if the unit emitted no line, and the number  *)
(* of output files under the destination equals the number of successful   *)
(* units.                                                                  *)
(***************************************************************************)
C15_OneToOne ==
    pc = "Done" =>
        /\ \A i \in 1..Len(futures) :
              (Returned(i) /\ futures[i].result[1]) =>
                  /\ YoloAt(i) \in DOMAIN files
                  /\ (\A n \in 1..Len(UnitAt(i).objects) : ~ValidObj(UnitAt(i).objects[n]))
                        => files[YoloAt(i)] = <<>>
        /\ Cardinality(DOMAIN files) = successful_conversions

(***************************************************************************)
(* C16.  Creating the directories is safe against the race: no task ever   *)
(* fails because a directory exists already, whichever way the exists      *)
(* checks and the mkdir calls of the workers interleave and whether or not *)
(* the destination root existed; a task opens its file only in a directory *)
(* that exists, and two units that share their output directory and have   *)
(* only valid objects both end as successes with their files present.      *)
(***************************************************************************)
C16_DirectoryRace ==
    /\ \A i \in 1..Len(futures) : Returned(i) => futures[i].result[3] # MsgFileExists
    /\ \A w \in 1..MaxWorkers :
          workers[w].pos \in {"open", "loop"} => YoloPathOf(w).dir \in dirs
    /\ \A i, j \in 1..Len(futures) :
          (/\ i # j
           /\ YoloAt(i).dir = YoloAt(j).dir
           /\ Returned(i) /\ Returned(j)
           /\ AllValid(UnitAt(i)) /\ AllValid(UnitAt(j))) =>
              /\ futures[i].result[1] /\ futures[j].result[1]
              /\ YoloAt(i) \in DOMAIN files /\ YoloAt(j) \in DOMAIN files

\* the destination root did not exist; two workers found out/a missing, one has
\* created it and returned its unit as a success, the other is about to call
\* mkdir on it
C16_Witness ==
    \E w \in 1..MaxWorkers : \E i \in 1..Len(futures) :
        /\ PARALLEL
        /\ workers[w].pos = "mk_dir"
        /\ workers[w].lvl = Len(YoloPathOf(w).dir)
        /\ YoloPathOf(w).dir \in dirs
        /\ i # workers[w].task
        /\ YoloAt(i).dir = YoloPathOf(w).dir
        /\ Returned(i)
        /\ futures[i].result[1]
        /\ completion = <<i>>
        /\ DOMAIN files = {YoloAt(i)}
        /\ YoloPathOf(w) \notin DOMAIN files

(***************************************************************************)
(* C17.  Every summary shows the first min(F, 10) failure diagnostics, in  *)
(* the order the failures were collected, where F is the number of failed  *)
(* units; it states F - 10 more errors when F > 10 and no remainder        *)
(* otherwise; diagnostics shown plus remainder stated equals F.            *)
(***************************************************************************)
FailuresCollected ==
    LET failed == SelectSeq(outcomes, LAMBDA o : ~o[1])
    IN [n \in 1..Len(failed) |-> <<failed[n][2], failed[n][3]>>]

C17_ReportTruncation ==
    /\ ErrorsShown = 10
    /\ \A n \in 1..Len(reports) :
          LET r == reports[n]
              F == r.failed
              m == IF F < 10 THEN F ELSE 10
          IN /\ F = failed_conversions
             /\ Len(r.shown) = m
             /\ r.shown = SubSeq(FailuresCollected, 1, m)
             /\ r.more = IF F > 10 THEN F - 10 ELSE 0
             /\ Len(r.shown) + r.more = F

\* the summary of a run of 13 units with 12 failures: 10 shown, 2 more
C17_Witness ==
    /\ pc = "Done"
    /\ Len(reports) = 1
    /\ reports[1].total = 13
    /\ reports[1].failed = 12
    /\ reports[1].succeeded = 1
    /\ Len(reports[1].shown) = 10
    /\ reports[1].more = 2

(***************************************************************************)
(* C18.  The claim: main() goes through Idle, Enumerating, Running,        *)
(* Finalizing, Done in this order and no other; tasks exist only once the  *)
(* whole list of units is there; a summary is computed only when as many   *)
(* outcomes were collected as units were enumerated; and a run that has    *)
(* finished its enumeration and is over, a run over zero units included,   *)
(* is in Done with exactly one summary printed.                            *)
(***************************************************************************)
C18_State ==
    /\ (futures # <<>> \/ \E i \in DOMAIN calls : calls[i] > 0) =>
          /\ pc \notin {"Idle", "Enumerating"}
          /\ xml_files = SelectXml(tree)
          /\ total_files = Len(xml_files)
    /\ reports # <<>> => Len(outcomes) = total_files
    /\ pc = "Finalizing" => Len(outcomes) = total_files
    /\ pc = "Done" => Len(reports) = 1

C18_Step ==
    \/ pc' = pc
    \/ pc = "Idle" /\ pc' = "Enumerating"
    \/ pc = "Enumerating" /\ pc' = "Running"
    \/ pc = "Running" /\ pc' = "Finalizing"
    \/ pc = "Finalizing" /\ pc' = "Done" /\ Len(reports') = Len(reports) + 1
    \/ pc = "Done" /\ pc' = "Idle" /\ run' = run + 1

C18_Coordinator == []C18_State /\ [][C18_Step]_vars

(***************************************************************************)
(* C19.  With workers that finish what they hold, every invocation of      *)
(* main() reaches Done, whatever the number of units and the pool size     *)
(* (more units than workers included): a task that is queued is eventually *)
(* taken, a task that is taken eventually has its result, a result is      *)
(* eventually collected, and main() never stays in the loop.               *)
(***************************************************************************)
\* main() is under way: not started, or with tasks queued, taken or waiting to
\* be collected
UnderWay == pc \in {"Idle", "Enumerating", "Running", "Finalizing"}

\* main() is over and every unit was taken, has its result and was collected
AllProcessed ==
    /\ pc = "Done"
    /\ Len(futures) = total_files
    /\ \A i \in 1..total_files : Returned(i) /\ i \in yielded /\ OutcomeCount(i) = 1

C19_Terminates == UnderWay ~> AllProcessed

\* the pool run of three units on one worker is done: two tasks were queued
\* while the first was executed
C19_Witness ==
    /\ pc = "Done"
    /\ PARALLEL
    /\ NUM_CORES = 1
    /\ total_files = 3
    /\ Len(outcomes) = 3
    /\ \A i \in 1..3 : calls[i] = 1

(***************************************************************************)
(* C20.  Throughout both loops error_messages holds exactly one entry for  *)
(* every failed unit collected so far and none for a successful one, with  *)
(* the message the unit returned, and its length is failed_conversions.    *)
(***************************************************************************)
\* the position of unit i in the order the futures finished
CompletedAt(i) == CHOOSE n \in 1..Len(completion) : completion[n] = i

\* the unit whose path is the key of the n-th entry
UnitOfEntry(n) == CHOOSE i \in 1..total_files : xml_files[i] = error_messages[n][1]

C20_OneEntryPerFailure ==
    /\ Len(error_messages) = failed_conversions
    /\ \A m, n \in 1..Len(error_messages) :
          m # n => error_messages[m][1] # error_messages[n][1]
    /\ \A i \in 1..Len(futures) :
          (i \in yielded /\ Returned(i)) =>
              IF futures[i].result[1]
              THEN \A n \in 1..Len(error_messages) : error_messages[n][1] # xml_files[i]
              ELSE \E n \in 1..Len(error_messages) :
                      error_messages[n] = <<xml_files[i], futures[i].result[3]>>
    /\ \A n \in 1..Len(error_messages) :
          \E i \in yielded : Returned(i) /\ xml_files[i] = error_messages[n][1]

(***************************************************************************)
(* The claim as it stands adds: the entries are in the order in which the  *)
(* failed units finished.                                                  *)
(***************************************************************************)
C20_DiagnosticsByCompletion ==
    /\ C20_OneEntryPerFailure
    /\ \A m, n \in 1..Len(error_messages) :
          m < n => CompletedAt(UnitOfEntry(m)) < CompletedAt(UnitOfEntry(n))

(***************************************************************************)
(* As amended: the entries are in the order in which the loop collected    *)
(* the failed units.  That is the order in which they finished for the     *)
(* units that finish after as_completed was called, and for the in-process *)
(* loop, where it is the order of the source list as well.                 *)
(***************************************************************************)
C20_DiagnosticsByCollection ==
    /\ C20_OneEntryPerFailure
    /\ error_messages = FailuresCollected
    /\ \A m, n \in 1..Len(error_messages) :
          (m < n /\ (~PARALLEL \/ (UnitOfEntry(m) \notin early /\ UnitOfEntry(n) \notin early)))
             => CompletedAt(UnitOfEntry(m)) < CompletedAt(UnitOfEntry(n))
    /\ \A m, n \in 1..Len(error_messages) :
          (m < n /\ ~PARALLEL) => UnitOfEntry(m) < UnitOfEntry(n)

\* in a pool run two units had failed before as_completed was called; the one
\* that finished later was collected first and has the first entry
C20_Witness ==
    /\ PARALLEL
    /\ Len(error_messages) = 2
    /\ failed_conversions = 2
    /\ UnitOfEntry(1) \in early
    /\ UnitOfEntry(2) \in early
    /\ CompletedAt(UnitOfEntry(2)) < CompletedAt(UnitOfEntry(1))
    /\ error_messages[1][2] # error_messages[2][2]

\* the class set of the i-th file of the list
ClassSetOf(i) == lister_process_xml_file(FileAt(file_list[i]))

\* the class names of all files
AllNames == UNION {ClassSetOf(i) : i \in 1..Len(file_list)}

\* the files whose class set has the name
FilesWith(class_name) == {i \in 1..Len(file_list) : class_name \in ClassSetOf(i)}

\* the one sequence of the names, each once, that ascends in the order of str
Ascending(S) ==
    CHOOSE q \in OrdersOf(S) :
       \A k \in 1..(Len(q) - 1) : Rank(q[k]) < Rank(q[k + 1])

\* the names cannot be sorted: None is among them and is not alone
Unsortable(S) == NameNone \in S /\ Cardinality(S) > 1

\* the count the dict keeps for a name, 0 if it has no key
CountOf(class_name) ==
    LET at == {i \in 1..Len(class_counts) : class_counts[i][1] = class_name}
    IN IF at = {} THEN 0 ELSE class_counts[CHOOSE i \in at : TRUE][2]

\* the loop over the results is over
Counted == lpc \in {"Saved", "Done", "ValueError", "TypeError"}

\* list_and_save_voc_classes() is over, by a return or an exception
ListerOver == lpc \in {"Returned", "Done", "ValueError", "TypeError"}

(***************************************************************************)
(* C21: the class list saved by the class lister depends neither on the    *)
(* order in which the workers return the class sets of the files nor on    *)
(* the mode.  Whenever a list is saved it is the union of the class sets   *)
(* of all files, each name once, ascending in the order of str; the dict   *)
(* has one key for each name of the union and its count is the number of   *)
(* files whose class set has the name.  Whether a list is saved is decided *)
(* by the files as well: none is saved when there is no file to process or *)
(* when the names cannot be sorted.                                        *)
(***************************************************************************)
C21_SavedListOrderFree ==
    /\ output.saved =>
          /\ ~Unsortable(AllNames)
          /\ output.text = StrList(Ascending(AllNames))
    /\ Counted =>
          /\ {class_counts[i][1] : i \in 1..Len(class_counts)} = AllNames
          /\ Len(class_counts) = Cardinality(AllNames)
          /\ \A class_name \in AllNames :
                CountOf(class_name) = Cardinality(FilesWith(class_name))
    /\ ListerOver =>
          (output.saved <=> (file_list # <<>> /\ ~Unsortable(AllNames)))

\* a pool run over three files saved the three names in the order of str:
\* the class set of the second file arrived first, the dict holds the names
\* in another order than the saved list, "dog" is in two of the class sets
\* and "Bird" in one
C21_Witness ==
    /\ USE_PARALLEL
    /\ lpc = "Done"
    /\ Len(file_list) = 3
    /\ results[1] = ClassSetOf(2)
    /\ results[1] # ClassSetOf(1)
    /\ output.saved
    /\ output.text = <<"'Bird'", "'cat'", "'dog'">>
    /\ Keys(class_counts) # Ascending(AllNames)
    /\ CountOf("dog") = 2
    /\ CountOf("Bird") = 1

====
